---- MODULE Spec2Model ----
(***************************************************************************)
(* Para-Gruta-Rally web app: the field-level permission evaluator          *)
(* (PermissionService) as a state machine.  One evaluator is constructed   *)
(* per behaviour from a (user, userData) pair; the actions are calls of    *)
(* its methods on a kid record, a field path and a context object.         *)
(*                                                                         *)
(* JavaScript values are modelled as follows.                              *)
(*   - undefined / a missing property is the string Undefined;             *)
(*   - an object that may be null or undefined carries a flag (present,    *)
(*     exists, hasParentInfo, hasParentIds) and canonical contents when    *)
(*     the flag is FALSE;                                                  *)
(*   - a method call yields [threw, value]: Ret(v) for a returned boolean, *)
(*     Throw for a TypeError raised by reading a property of               *)
(*     undefined/null.                                                     *)
(***************************************************************************)
EXTENDS Integers, Sequences, FiniteSets, TLC

VARIABLES
    user,        \* this.user: the authenticated identity {uid}
    userData,    \* this.userData: the user document {role, instructorId} or null
    userRole,    \* this.userRole
    canCreate,   \* this.canCreate
    canEdit,     \* this.canEdit
    canDelete,   \* this.canDelete
    canView,     \* this.canView
    inKid,       \* the record the caller evaluates (kidData)
    inField,     \* the field path the caller asks about
    inCtx,       \* the context argument: omitted, null or {kidData}
    op,          \* the method called last ("none" right after construction)
    result,      \* what that call produced
    inData,      \* the record object handed to filterData, as it is now
    inType,      \* filterData's type argument
    once,        \* what filterData(inData, inType) returned
    twice,       \* what filterData(once, inType) returned
    page,          \* the dashboard component that is mounted
    pageUserRole,  \* userRole as usePermissions() gives it to the page
    pageUid,       \* user?.uid as usePermissions() gives it to the page
    dbEvents,      \* the documents of the 'events' collection, in query order
    dbKids,        \* the documents of the 'kids' collection, in query order
    loading,       \* useState(true)
    error,         \* useState('')
    events,        \* useState([]) of HostDashboardPage
    registeredKids,\* useState([]) of HostDashboardPage
    kids,          \* useState([]) of ParentDashboardPage
    commentTexts,  \* useState({}): the comment text per kid id
    reads,         \* getDocs calls issued so far
    loads,         \* the runs of the loader that got past the role gate
    effectRuns,    \* how often the loading effect has run
    expandedKid,     \* useState(null): the id of the expanded card
    editingComments, \* useState({}): the kid ids whose flag is true
    saving,          \* useState({}): the kid ids whose flag is true
    saves,           \* the saveComments calls waiting on updateDoc
    writes,          \* the updateDoc calls that succeeded, in order
    lastCall,        \* the handler (or continuation) that ran last
    retry,       \* one call of retryFirestoreRead: its arguments, locals and position
    auth,        \* AuthProvider: its state and the position of the auth handler
    kidSvc       \* kidService: the kids collection and the addKid calls under way

vars == <<user, userData, userRole, canCreate, canEdit, canDelete, canView,
          inKid, inField, inCtx, op, result, inData, inType, once, twice,
          page, pageUserRole, pageUid, dbEvents, dbKids, loading, error,
          events, registeredKids, kids, commentTexts, reads, loads,
          effectRuns, expandedKid, editingComments, saving, saves, writes,
          lastCall, retry, auth, kidSvc>>

evaluator == <<user, userData, userRole, canCreate, canEdit, canDelete, canView>>
inputs == <<inKid, inField, inCtx>>
filterVars == <<inData, inType, once, twice>>
session == <<page, pageUserRole, pageUid>>
database == <<dbEvents, dbKids>>
pageState == <<loading, error, events, registeredKids, kids, commentTexts>>
loaderVars == <<reads, loads, effectRuns>>
commentVars == <<expandedKid, editingComments, saving, saves, writes, lastCall>>
dashVars == <<session, database, pageState, loaderVars, commentVars>>
permVars == <<evaluator, inputs, filterVars, op, result>>
serviceVars == <<retry, auth, kidSvc>>

-----------------------------------------------------------------------------
(* Bounds and input domains                                                *)

\* longest parentInfo.parentIds array of an enumerated record
MaxParentIds == 2

\* furthest rotation of the field enumeration that is tried
MaxRotation == 4

Undefined == "<undefined>"

Ret(v) == [threw |-> FALSE, value |-> v]
Throw == [threw |-> TRUE, value |-> FALSE]

\* JavaScript truthiness of a string-or-undefined value
Truthy(v) == v # Undefined /\ v # ""

CallerUid == "user-123"
Uids == {"user-123", "other-parent"}
InstructorIds == {"inst-1", "inst-2"}

RecognizedRoles == {"admin", "instructor", "parent", "guest"}
RoleInputs == RecognizedRoles \cup {"superuser", "host", "", Undefined}

NoUserData == [present |-> FALSE, role |-> Undefined, instructorId |-> Undefined]
UserDataInputs ==
    {NoUserData} \cup
    {[present |-> TRUE, role |-> r, instructorId |-> i] :
        r \in RoleInputs, i \in InstructorIds \cup {Undefined}}

UserInputs == {[uid |-> CallerUid]}

SeqsUpTo(S, n) == UNION {[1..k -> S] : k \in 0..n}

NoParentInfo ==
    [hasParentInfo |-> FALSE, hasParentIds |-> FALSE, parentIds |-> <<>>,
     parentId |-> Undefined]
ParentInfoInputs ==
    {NoParentInfo} \cup
    {[hasParentInfo |-> TRUE, hasParentIds |-> FALSE, parentIds |-> <<>>,
      parentId |-> p] : p \in Uids \cup {Undefined}} \cup
    {[hasParentInfo |-> TRUE, hasParentIds |-> TRUE, parentIds |-> s,
      parentId |-> p] : s \in SeqsUpTo(Uids, MaxParentIds), p \in Uids \cup {Undefined}}

\* a kid record that is undefined or null
MissingKid == [exists |-> FALSE, parentInfo |-> NoParentInfo, instructorId |-> Undefined]
KidInputs ==
    {MissingKid} \cup
    {[exists |-> TRUE, parentInfo |-> pi, instructorId |-> i] :
        pi \in ParentInfoInputs, i \in InstructorIds \cup {Undefined}}

\* the context argument: left out (the default {} applies), null, or {kidData: k}
CtxOmitted == [kind |-> "omitted", kidData |-> MissingKid]
CtxNull == [kind |-> "null", kidData |-> MissingKid]
CtxOf(k) == [kind |-> "object", kidData |-> k]

-----------------------------------------------------------------------------
(* String helpers: String.prototype.startsWith and .replace(str, str)      *)

StartsWith(s, p) == Len(p) <= Len(s) /\ SubSeq(s, 1, Len(p)) = p

\* index of the first occurrence of needle in s, 0 when there is none
IndexOf(s, needle) ==
    LET hits == {i \in 1..(Len(s) - Len(needle) + 1) :
                    SubSeq(s, i, i + Len(needle) - 1) = needle}
    IN IF hits = {} THEN 0 ELSE CHOOSE i \in hits : \A j \in hits : i <= j

\* s.replace(needle, by): only the first occurrence is replaced
Replace(s, needle, by) ==
    LET i == IndexOf(s, needle)
    IN IF i = 0 THEN s
       ELSE SubSeq(s, 1, i - 1) \o by \o SubSeq(s, i + Len(needle), Len(s))

-----------------------------------------------------------------------------
(* PermissionService: constructor                                          *)

\* the role is defaulted with ?? instead of ||: an empty role is kept
RoleOf_NullishOnly(ud) ==
    IF ud.present /\ ud.role # Undefined THEN ud.role ELSE "guest"

\* userData?.role || 'guest'
RoleOf(ud) == IF ud.present /\ Truthy(ud.role) THEN ud.role ELSE "guest"

canCreateContent ==
    CASE userRole = "admin" -> TRUE
      [] userRole = "instructor" -> TRUE
      [] userRole = "parent" -> FALSE
      [] userRole = "guest" -> FALSE
      [] OTHER -> FALSE

canEditContent ==
    CASE userRole = "admin" -> TRUE
      [] userRole = "instructor" -> TRUE
      [] userRole = "parent" -> FALSE
      [] userRole = "guest" -> FALSE
      [] OTHER -> FALSE

\* the instructor row copied from canEditContent
canDeleteContent_InstructorTrue ==
    CASE userRole = "admin" -> TRUE
      [] userRole = "instructor" -> TRUE
      [] OTHER -> FALSE

canDeleteContent ==
    CASE userRole = "admin" -> TRUE
      [] userRole = "instructor" -> FALSE
      [] userRole = "parent" -> FALSE
      [] userRole = "guest" -> FALSE
      [] OTHER -> FALSE

\* any non-empty role may view
canViewContent_AnyRole == Truthy(userRole)

canViewContent == userRole \in {"admin", "instructor", "parent", "guest"}

-----------------------------------------------------------------------------
(* PermissionService: policy tables                                        *)

parentCanView ==
    {"participantNumber", "firstName", "lastName", "fullName",
     "personalInfo.address", "address", "personalInfo.dateOfBirth",
     "dateOfBirth", "personalInfo.capabilities", "personalInfo.announcersNotes",
     "personalInfo.photo", "parentInfo.name", "guardianName",
     "parentInfo.email", "email", "parentInfo.phone", "contactNumber",
     "parentInfo.grandparentsInfo", "comments.parent", "notes",
     "signedDeclaration", "signedFormStatus",
     "vehicle.make", "vehicle.model", "vehicle.licensePlate", "vehicle.photo"}

parentCannotView ==
    {"comments.organization", "comments.teamLeader", "comments.familyContact",
     "instructorComments", "medicalNotes", "emergencyContact", "emergencyPhone",
     "vehicle.batteryType", "vehicle.batteryDate", "vehicle.driveType",
     "vehicle.steeringType", "vehicle.notes", "vehicle.modifications"}

guestCanView ==
    {"firstName", "lastName", "personalInfo.address", "address",
     "personalInfo.capabilities", "personalInfo.announcersNotes",
     "parentInfo.name", "guardianName", "parentInfo.phone", "contactNumber",
     "vehicle.make", "vehicle.model", "participantNumber"}

guestCannotView ==
    {"parentInfo.email", "email", "comments.parent", "comments.familyContact",
     "parentInfo.grandparentsInfo", "signedDeclaration", "emergencyContact",
     "emergencyPhone"}

\* the photo entry left out of the parent edit-list
parentCanEdit_NoPhoto ==
    {"comments.parent", "notes", "parentInfo.phone", "contactNumber",
     "parentInfo.grandparentsInfo.names", "parentInfo.grandparentsInfo.phone"}

parentCanEdit ==
    {"comments.parent", "notes", "personalInfo.photo",
     "parentInfo.phone", "contactNumber", "parentInfo.grandparentsInfo.names",
     "parentInfo.grandparentsInfo.phone"}

\* the medicalNotes entry left out of the instructor edit-list
instructorCanEdit_NoMedical ==
    {"comments.teamLeader", "instructorComments",
     "vehicle.batteryType", "vehicle.batteryDate", "vehicle.driveType",
     "vehicle.steeringType", "vehicle.notes", "vehicle.modifications"}

instructorCanEdit ==
    {"comments.teamLeader", "instructorComments", "medicalNotes",
     "vehicle.batteryType", "vehicle.batteryDate", "vehicle.driveType",
     "vehicle.steeringType", "vehicle.notes", "vehicle.modifications"}

\* the parent comment added to the guest edit-list
guestCanEdit_WithParent == {"comments.organization", "comments.parent"}

guestCanEdit == {"comments.organization"}

\* field paths outside every table: unknown fields, nested names the
\* dashboards ask for, and paths that extend a table entry
OtherFields ==
    {"personalInfo.firstName", "personalInfo.lastName", "personalInfo.photoUrl",
     "notesArchive", "emailVerified", "teamId", "vehicle", "comments", ""}

FieldInputs ==
    parentCanView \cup parentCannotView \cup guestCanView \cup guestCannotView
    \cup parentCanEdit \cup instructorCanEdit \cup guestCanEdit \cup OtherFields

-----------------------------------------------------------------------------
(* PermissionService: ownership and field checks                           *)

\* kidData?.parentInfo || {}
ParentInfoOf(kidData) ==
    IF kidData.exists /\ kidData.parentInfo.hasParentInfo
    THEN kidData.parentInfo ELSE NoParentInfo

Includes(seq, x) == \E i \in 1..Len(seq) : seq[i] = x

\* pattern.replace('.*', ''), worked out once for the allow-list entries
StrippedAllowEntries == [pattern \in parentCanView |-> Replace(pattern, ".*", "")]

StripWildcard(pattern) ==
    IF pattern \in DOMAIN StrippedAllowEntries THEN StrippedAllowEntries[pattern]
    ELSE Replace(pattern, ".*", "")

\* a non-empty parentIds array counts as a link, whoever is in it
isParent_AnyParentIds(kidData) ==
    LET parentInfo == ParentInfoOf(kidData)
    IN (parentInfo.hasParentIds /\ Len(parentInfo.parentIds) > 0)
       \/ parentInfo.parentId = user.uid

\* the two links joined with && instead of ||
isParent_BothLinks(kidData) ==
    LET parentInfo == ParentInfoOf(kidData)
    IN (parentInfo.hasParentIds /\ Includes(parentInfo.parentIds, user.uid))
       /\ parentInfo.parentId = user.uid

\* (parentInfo.parentIds && parentInfo.parentIds.includes(this.user.uid)) ||
\* (parentInfo.parentId === this.user.uid)
isParent(kidData) ==
    LET parentInfo == ParentInfoOf(kidData)
    IN (parentInfo.hasParentIds /\ Includes(parentInfo.parentIds, user.uid))
       \/ parentInfo.parentId = user.uid

\* kidData.instructorId !== this.userData.instructorId, negated
isInstructorOf(kidData) == kidData.instructorId = userData.instructorId

\* the deny-list test left out
parentFieldVisible_NoDeny(field, canViewList, cannotViewList) ==
    \E pattern \in canViewList :
        StartsWith(field, StripWildcard(pattern)) \/ field = pattern

\* exact matches only, no prefix match
parentFieldVisible_ExactOnly(field, canViewList, cannotViewList) ==
    IF field \in cannotViewList THEN FALSE ELSE field \in canViewList

\* if (parentCannotView.includes(field)) return false;
\* return canViewList.some(pattern =>
\*     field.startsWith(pattern.replace('.*', '')) || field === pattern)
parentFieldVisible(field, canViewList, cannotViewList) ==
    IF field \in cannotViewList THEN FALSE
    ELSE \E pattern \in canViewList :
            StartsWith(field, StripWildcard(pattern)) \/ field = pattern

\* if (guestCannotView.includes(field)) return false;
\* return guestCanView.includes(field)
guestFieldVisible(field, canViewList, cannotViewList) ==
    IF field \in cannotViewList THEN FALSE ELSE field \in canViewList

\* const { kidData, vehicleData } = context, with context = {} by default
KidDataOf(context) == IF context.kind = "object" THEN context.kidData ELSE MissingKid

\* the guest branch gated on a record being there, like the other roles
canViewField_GuestNeedsRecord(field, context) ==
    IF context.kind = "null" THEN Throw
    ELSE LET kidData == KidDataOf(context) IN
      CASE userRole = "admin" -> Ret(TRUE)
        [] userRole = "parent" ->
             IF ~kidData.exists \/ ~isParent(kidData) THEN Ret(FALSE)
             ELSE Ret(parentFieldVisible(field, parentCanView, parentCannotView))
        [] userRole = "instructor" ->
             IF ~kidData.exists \/ ~isInstructorOf(kidData) THEN Ret(FALSE)
             ELSE Ret(TRUE)
        [] userRole = "guest" ->
             IF ~kidData.exists THEN Ret(FALSE)
             ELSE Ret(guestFieldVisible(field, guestCanView, guestCannotView))
        [] OTHER -> Ret(FALSE)

canViewField(field, context) ==
    IF context.kind = "null" THEN Throw
    ELSE LET kidData == KidDataOf(context) IN
      CASE userRole = "admin" -> Ret(TRUE)
        [] userRole = "parent" ->
             IF ~kidData.exists \/ ~isParent(kidData) THEN Ret(FALSE)
             ELSE Ret(parentFieldVisible(field, parentCanView, parentCannotView))
        [] userRole = "instructor" ->
             IF ~kidData.exists \/ ~isInstructorOf(kidData) THEN Ret(FALSE)
             ELSE Ret(TRUE)
        [] userRole = "guest" ->
             Ret(guestFieldVisible(field, guestCanView, guestCannotView))
        [] OTHER -> Ret(FALSE)

canEditField(field, context) ==
    IF context.kind = "null" THEN Throw
    ELSE LET kidData == KidDataOf(context) IN
      CASE userRole = "admin" -> Ret(TRUE)
        [] userRole = "parent" ->
             IF ~kidData.exists \/ ~isParent(kidData) THEN Ret(FALSE)
             ELSE Ret(field \in parentCanEdit)
        [] userRole = "instructor" ->
             IF ~kidData.exists \/ ~isInstructorOf(kidData) THEN Ret(FALSE)
             ELSE Ret(field \in instructorCanEdit)
        [] userRole = "guest" -> Ret(field \in guestCanEdit)
        [] OTHER -> Ret(FALSE)

\* the ownership gate placed ahead of the admin case
canViewKid_AdminNeedsRecord(kidData) ==
    CASE userRole = "admin" -> Ret(kidData.exists)
      [] userRole = "parent" -> Ret(isParent(kidData))
      [] userRole = "instructor" ->
           IF ~kidData.exists THEN Throw ELSE Ret(isInstructorOf(kidData))
      [] userRole = "guest" -> Ret(TRUE)
      [] OTHER -> Ret(FALSE)

\* the parent case without the legacy parentInfo.parentId link
canViewKid_NoLegacyParentId(kidData) ==
    CASE userRole = "admin" -> Ret(TRUE)
      [] userRole = "parent" ->
           LET parentInfo == ParentInfoOf(kidData)
           IN Ret(parentInfo.hasParentIds /\ Includes(parentInfo.parentIds, user.uid))
      [] userRole = "instructor" ->
           IF ~kidData.exists THEN Throw ELSE Ret(isInstructorOf(kidData))
      [] userRole = "guest" -> Ret(TRUE)
      [] OTHER -> Ret(FALSE)

canViewKid(kidData) ==
    CASE userRole = "admin" -> Ret(TRUE)
      [] userRole = "parent" -> Ret(isParent(kidData))
      [] userRole = "instructor" ->
           IF ~kidData.exists THEN Throw ELSE Ret(isInstructorOf(kidData))
      [] userRole = "guest" -> Ret(TRUE)
      [] OTHER -> Ret(FALSE)

-----------------------------------------------------------------------------
(* PermissionService: filterData                                           *)
(*                                                                         *)
(* A record object is [kid, nodes]: kid holds the values the ownership     *)
(* tests read (parentInfo.parentIds, parentInfo.parentId, instructorId),   *)
(* nodes is the set of the other property paths that are present, each     *)
(* with a truthy value or a nested object.  { ...data } copies the         *)
(* top-level keys only, so the nested objects of the copy are the nested   *)
(* objects of data: a loop state is the pair [data, filtered] of the two   *)
(* views, and a delete inside a nested object shows in both.               *)

\* the parentInfo object listed in place of parentInfo.name
getKidFields_WithParentInfo ==
    <<"participantNumber", "personalInfo.address", "personalInfo.dateOfBirth",
      "personalInfo.capabilities", "personalInfo.announcersNotes", "personalInfo.photo",
      "parentInfo", "parentInfo.email", "parentInfo.phone",
      "parentInfo.grandparentsInfo", "comments.parent", "comments.organization",
      "comments.teamLeader", "comments.familyContact", "instructorComments",
      "signedDeclaration", "signedFormStatus">>

\* the ownership array listed among the fields to redact
getKidFields_WithParentIds ==
    <<"participantNumber", "personalInfo.address", "personalInfo.dateOfBirth",
      "personalInfo.capabilities", "personalInfo.announcersNotes", "personalInfo.photo",
      "parentInfo.name", "parentInfo.email", "parentInfo.phone",
      "parentInfo.grandparentsInfo", "comments.parent", "comments.organization",
      "comments.teamLeader", "comments.familyContact", "instructorComments",
      "signedDeclaration", "signedFormStatus", "parentInfo.parentIds">>

getKidFields ==
    <<"participantNumber", "personalInfo.address", "personalInfo.dateOfBirth",
      "personalInfo.capabilities", "personalInfo.announcersNotes", "personalInfo.photo",
      "parentInfo.name", "parentInfo.email", "parentInfo.phone",
      "parentInfo.grandparentsInfo", "comments.parent", "comments.organization",
      "comments.teamLeader", "comments.familyContact", "instructorComments",
      "signedDeclaration", "signedFormStatus">>

getVehicleFields ==
    <<"make", "model", "licensePlate", "batteryType", "batteryDate",
      "driveType", "steeringType", "photo", "notes", "modifications">>

\* the paths of a fully filled kid document and of a vehicle document
FullKidNodes ==
    {"participantNumber", "teamId", "medicalNotes",
     "personalInfo", "personalInfo.firstName", "personalInfo.lastName",
     "personalInfo.address", "personalInfo.dateOfBirth", "personalInfo.capabilities",
     "personalInfo.announcersNotes", "personalInfo.photo",
     "parentInfo.name", "parentInfo.email", "parentInfo.phone",
     "parentInfo.grandparentsInfo", "parentInfo.grandparentsInfo.names",
     "parentInfo.grandparentsInfo.phone",
     "comments", "comments.parent", "comments.organization", "comments.teamLeader",
     "comments.familyContact", "instructorComments", "signedDeclaration",
     "signedFormStatus"}

FullVehicleNodes ==
    {"make", "model", "licensePlate", "batteryType", "batteryDate",
     "driveType", "steeringType", "photo", "notes", "modifications", "teamName"}

NodeSetInputs ==
    {{}, FullKidNodes, FullVehicleNodes,
     {n \in FullKidNodes : ~StartsWith(n, "comments")},
     {"participantNumber", "personalInfo", "personalInfo.firstName",
      "parentInfo.email", "comments", "comments.organization", "signedDeclaration"},
     {"comments", "personalInfo", "parentInfo.grandparentsInfo", "make", "notes"}}

\* null/undefined data has no properties; parentInfo.* needs a parentInfo object
MkData(k, nodes) ==
    [kid |-> k,
     nodes |-> IF ~k.exists THEN {}
               ELSE IF k.parentInfo.hasParentInfo THEN nodes
               ELSE {n \in nodes : ~StartsWith(n, "parentInfo.")}]

DataInputs == {MkData(k, n) : k \in KidInputs, n \in NodeSetInputs}

NoData == MkData(MissingKid, {})

\* obj[path] is there and truthy
HasNode(obj, path) ==
    CASE path = "parentInfo" -> obj.kid.exists /\ obj.kid.parentInfo.hasParentInfo
      [] path = "parentInfo.parentIds" -> obj.kid.parentInfo.hasParentIds
      [] path = "parentInfo.parentId" -> obj.kid.parentInfo.parentId # Undefined
      [] path = "instructorId" -> obj.kid.instructorId # Undefined
      [] OTHER -> path \in obj.nodes

\* delete obj[path]: the property and everything below it
DeleteNode(obj, path) ==
    [kid |->
        CASE path = "parentInfo" -> [obj.kid EXCEPT !.parentInfo = NoParentInfo]
          [] path = "parentInfo.parentIds" ->
                [obj.kid EXCEPT !.parentInfo.hasParentIds = FALSE,
                                !.parentInfo.parentIds = <<>>]
          [] path = "parentInfo.parentId" ->
                [obj.kid EXCEPT !.parentInfo.parentId = Undefined]
          [] path = "instructorId" -> [obj.kid EXCEPT !.instructorId = Undefined]
          [] OTHER -> obj.kid,
     nodes |-> {n \in obj.nodes : n # path /\ ~StartsWith(n, path \o ".")}]

\* the paths of keys[0..i] for i < keys.length - 1, keys = path.split('.')
ProperPrefixes(path) ==
    {SubSeq(path, 1, i - 1) : i \in {j \in 1..Len(path) : SubSeq(path, j, j) = "."}}

\* the first key is deleted from the copy instead of the last key from the
\* object the walk arrived at
removeNestedField_DropsFirstKey(st, path) ==
    IF ProperPrefixes(path) = {}
    THEN [data |-> st.data, filtered |-> DeleteNode(st.filtered, path)]
    ELSE LET first == CHOOSE pre \in ProperPrefixes(path) :
                        \A q \in ProperPrefixes(path) : Len(pre) <= Len(q)
         IN [data |-> st.data, filtered |-> DeleteNode(st.filtered, first)]

\* removeNestedField(filtered, path) on the pair of views: it walks the
\* keys from the copy, returns at the first missing one, and deletes the
\* last key from the object it arrived at
removeNestedField(st, path) ==
    IF \E pre \in ProperPrefixes(path) : ~HasNode(st.filtered, pre) THEN st
    ELSE IF ProperPrefixes(path) = {}
         THEN [data |-> st.data, filtered |-> DeleteNode(st.filtered, path)]
         ELSE [data |-> DeleteNode(st.data, path),
               filtered |-> DeleteNode(st.filtered, path)]

\* { ...data }: a new object also when data is null or undefined
ShallowCopy(data) ==
    IF data.kid.exists THEN data
    ELSE [kid |-> [exists |-> TRUE, parentInfo |-> NoParentInfo, instructorId |-> Undefined],
          nodes |-> {}]

\* the body of fieldsToCheck.forEach
filterStep(st, field) ==
    IF canViewField(field, CtxOf(st.data.kid)).value THEN st
    ELSE removeNestedField(st, field)

RECURSIVE forEachField(_, _, _)
forEachField(fieldsToCheck, i, st) ==
    IF i > Len(fieldsToCheck) THEN st
    ELSE forEachField(fieldsToCheck, i + 1, filterStep(st, fieldsToCheck[i]))

fieldsToCheck(type) == IF type = "kid" THEN getKidFields ELSE getVehicleFields

\* filterData with the enumeration walked in the given order
filterDataIn(data, order) ==
    IF userRole = "admin" THEN [data |-> data, filtered |-> data]
    ELSE forEachField(order, 1, [data |-> data, filtered |-> ShallowCopy(data)])

\* filterData(data, type): [data] is the argument afterwards, [filtered]
\* the returned object
filterData(data, type) == filterDataIn(data, fieldsToCheck(type))

-----------------------------------------------------------------------------
(* The state machine                                                       *)

NoResult == Ret(FALSE)

Null == "<null>"

\* data: null in a result of retryFirestoreRead
NullData == [exists |-> FALSE, role |-> Null, roleType |-> "null"]

\* retryFirestoreRead is not being called
NoRetry ==
    [maxRetries |-> 0, baseDelay |-> 0, attempt |-> 0, pc |-> "idle", reads |-> 0,
     seen |-> <<>>, waits |-> <<>>, result |-> [exists |-> FALSE, data |-> NullData]]

\* no user document has been read
NoStoredRole == [role |-> Null, roleType |-> "null"]

\* AuthProvider right after its first render: the useState defaults, no
\* auth event delivered yet
NoAuth ==
    [pc |-> "idle", events |-> 0, signedIn |-> FALSE, path |-> "none",
     currentUser |-> Null, userRole |-> Null, error |-> Null,
     firestoreRole |-> NoStoredRole, loading |-> TRUE, authInitialized |-> FALSE]

\* kidService is not being called
NoKidSvc == [kids |-> <<>>, calls |-> <<>>]

\* none of the services is active
NoServiceActivity ==
    /\ retry = NoRetry
    /\ auth = NoAuth
    /\ kidSvc = NoKidSvc

\* no handler has run
NoCall == [name |-> "none", kid |-> Null]

\* the useState defaults of the card and comment state; nothing written
NoCommentActivity ==
    /\ expandedKid = Null
    /\ editingComments = {}
    /\ saving = {}
    /\ saves = <<>>
    /\ writes = <<>>
    /\ lastCall = NoCall

\* no dashboard is rendered: the component state is the useState defaults
NoPageMounted ==
    /\ page = "none"
    /\ pageUserRole = Undefined
    /\ pageUid = Undefined
    /\ dbEvents = <<>>
    /\ dbKids = <<>>
    /\ loading = TRUE
    /\ error = ""
    /\ events = <<>>
    /\ registeredKids = <<>>
    /\ kids = <<>>
    /\ commentTexts = {}
    /\ reads = 0
    /\ loads = <<>>
    /\ effectRuns = 0
    /\ NoCommentActivity

\* new PermissionService(user, userData), then the caller's arguments
Init ==
    /\ user \in UserInputs
    /\ userData \in UserDataInputs
    /\ userRole = RoleOf(userData)
    /\ canCreate = canCreateContent
    /\ canEdit = canEditContent
    /\ canDelete = canDeleteContent
    /\ canView = canViewContent
    /\ inField \in FieldInputs
    /\ inKid \in KidInputs
    /\ inCtx \in IF inKid.exists THEN {CtxOf(inKid)}
                 ELSE {CtxOf(inKid), CtxOmitted, CtxNull}
    /\ op = "none"
    /\ result = NoResult
    /\ inData = NoData
    /\ inType = "kid"
    /\ once = NoData
    /\ twice = NoData
    /\ NoPageMounted
    /\ NoServiceActivity

CallCanViewField ==
    /\ op' = "canViewField"
    /\ result' = canViewField(inField, inCtx)
    /\ UNCHANGED <<evaluator, inputs, filterVars, dashVars, serviceVars>>

CallCanEditField ==
    /\ op' = "canEditField"
    /\ result' = canEditField(inField, inCtx)
    /\ UNCHANGED <<evaluator, inputs, filterVars, dashVars, serviceVars>>

CallCanViewKid ==
    /\ op' = "canViewKid"
    /\ result' = canViewKid(inKid)
    /\ UNCHANGED <<evaluator, inputs, filterVars, dashVars, serviceVars>>

Next == CallCanViewField \/ CallCanEditField \/ CallCanViewKid

Spec == Init /\ [][Next]_vars

TypeOK ==
    /\ user \in UserInputs
    /\ userData \in UserDataInputs
    /\ userRole \in RoleInputs
    /\ {canCreate, canEdit, canDelete, canView} \subseteq BOOLEAN
    /\ inField \in FieldInputs
    /\ inKid \in KidInputs
    /\ op \in {"none", "canViewField", "canEditField", "canViewKid"}
    /\ result \in {Ret(TRUE), Ret(FALSE), Throw}

-----------------------------------------------------------------------------
(* Properties                                                              *)

FieldOps == {"canViewField", "canEditField"}

\* a field check that was called with a context object (given or defaulted)
FieldCheckDone == op \in FieldOps /\ inCtx.kind # "null"

\* the record the field checks look at
CtxKid == IF inCtx.kind = "object" THEN inCtx.kidData ELSE MissingKid

\* the caller's uid is in parentInfo.parentIds (when present) or is parentInfo.parentId
ParentLinked(k) ==
    /\ k.exists
    /\ k.parentInfo.hasParentInfo
    /\ \/ /\ k.parentInfo.hasParentIds
          /\ user.uid \in {k.parentInfo.parentIds[i] : i \in DOMAIN k.parentInfo.parentIds}
       \/ k.parentInfo.parentId = user.uid

\* C1: under role admin every field check and every record check returns
\* true, for every field path and every record (a missing one included),
\* and the four capability flags are all true.
C1_AdminAllowsEverything ==
    userRole = "admin" =>
        /\ canCreate /\ canEdit /\ canDelete /\ canView
        /\ (FieldCheckDone => result = Ret(TRUE))
        /\ (op = "canViewKid" => result = Ret(TRUE))

C1_Witness ==
    /\ userRole = "admin"
    /\ op = "canViewKid"
    /\ ~inKid.exists
    /\ result = Ret(TRUE)

\* C2: for a parent or an instructor and a record the caller is not linked
\* to (or no record at all), canViewField and canEditField return false for
\* every field path, the role's allow-list and edit-list entries included.
C2_UnlinkedDeniesEveryField ==
    /\ (userRole = "parent" /\ FieldCheckDone /\ ~ParentLinked(CtxKid))
            => result = Ret(FALSE)
    /\ (userRole = "instructor" /\ FieldCheckDone
            /\ (~CtxKid.exists \/ CtxKid.instructorId # userData.instructorId))
            => result = Ret(FALSE)

C2_Witness ==
    /\ userRole = "parent"
    /\ op = "canEditField"
    /\ inField = "personalInfo.photo"
    /\ inKid.exists
    /\ inKid.parentInfo.hasParentIds
    /\ inKid.parentInfo.parentIds = <<"other-parent">>
    /\ inKid.parentInfo.parentId = Undefined
    /\ inCtx = CtxOf(inKid)
    /\ result = Ret(FALSE)

\* allow-list entries that equal the path or are a string prefix of it,
\* written plainly or with a wildcard marker
EntriesMatching(f) ==
    {SubSeq(f, 1, n) : n \in 1..Len(f)} \cup {SubSeq(f, 1, n) \o ".*" : n \in 1..Len(f)}

\* C3: a path in the parent deny-list is never viewable by a parent on an
\* owned record, and a path in the guest deny-list is never viewable by a
\* guest on any record; this stays so when the allow-list is extended by an
\* entry that equals the path or is a prefix of it.
C3_DenyListWins ==
    /\ (userRole = "parent" /\ op = "canViewField" /\ ParentLinked(CtxKid)
            /\ inField \in parentCannotView)
            => result = Ret(FALSE)
    /\ (userRole = "guest" /\ op = "canViewField" /\ inCtx.kind # "null"
            /\ inField \in guestCannotView)
            => result = Ret(FALSE)
    /\ inField \in parentCannotView =>
            \A e \in EntriesMatching(inField) :
                ~parentFieldVisible(inField, parentCanView \cup {e}, parentCannotView)
    /\ inField \in guestCannotView =>
            \A e \in EntriesMatching(inField) :
                ~guestFieldVisible(inField, guestCanView \cup {e}, guestCannotView)

C3_Witness ==
    /\ userRole = "parent"
    /\ op = "canViewField"
    /\ ParentLinked(CtxKid)
    /\ inField = "vehicle.notes"
    /\ "vehicle.*" \in EntriesMatching(inField)
    /\ StartsWith(inField, Replace("vehicle.*", ".*", ""))
    /\ result = Ret(FALSE)

\* C4: for a parent, canViewKid(record) is true exactly when the caller's
\* uid is in parentInfo.parentIds or equals parentInfo.parentId; membership
\* in parentIds suffices when parentId names someone else, and a record
\* without parentInfo yields false.
C4_ParentCanViewKid ==
    (userRole = "parent" /\ op = "canViewKid") =>
        /\ result = Ret(ParentLinked(inKid))
        /\ (~inKid.exists \/ ~inKid.parentInfo.hasParentInfo) => result = Ret(FALSE)

C4_Witness ==
    /\ userRole = "parent"
    /\ op = "canViewKid"
    /\ inKid.exists
    /\ inKid.parentInfo.hasParentIds
    /\ inKid.parentInfo.parentIds = <<"other-parent", "user-123">>
    /\ inKid.parentInfo.parentId = "other-parent"
    /\ result = Ret(TRUE)

\* C5: for an instructor, canViewKid(record) is true exactly when
\* record.instructorId equals the caller's instructorId, and false whenever
\* the caller has no instructorId, also when the record has none either.
C5_InstructorCanViewKid ==
    (userRole = "instructor" /\ op = "canViewKid" /\ inKid.exists) =>
        result = Ret(/\ userData.instructorId # Undefined
                     /\ inKid.instructorId = userData.instructorId)

\* C6: a role string other than admin, instructor, parent, guest is
\* maximally restrictive: the four flags are false and every field check
\* and record check returns false.
C6_UnrecognizedRoleDeniesAll ==
    userRole \notin {"admin", "instructor", "parent", "guest"} =>
        /\ ~canCreate /\ ~canEdit /\ ~canDelete /\ ~canView
        /\ (FieldCheckDone => result = Ret(FALSE))
        /\ (op = "canViewKid" => result = Ret(FALSE))

C6_Witness ==
    /\ userData.role = "superuser"
    /\ userRole = "superuser"
    /\ ~canView
    /\ op = "canEditField"
    /\ inField = "comments.organization"
    /\ inCtx.kind = "object"
    /\ result = Ret(FALSE)

\* what a guest is answered, stated from the guest rows of the policy
GuestAnswer ==
    CASE op = "canViewField" ->
            Ret(inField \in guestCanView /\ inField \notin guestCannotView)
      [] op = "canEditField" -> Ret(inField = "comments.organization")
      [] op = "canViewKid" -> Ret(TRUE)
      [] OTHER -> NoResult

RoleSupplied == userData.present /\ userData.role # Undefined /\ userData.role # ""

\* C7 as stated: whenever the supplied role is missing or is not a
\* recognized role, the evaluator's role is guest and it answers as a guest.
C7_Original ==
    (~RoleSupplied \/ userData.role \notin {"admin", "instructor", "parent", "guest"}) =>
        /\ userRole = "guest"
        /\ canView
        /\ (FieldCheckDone \/ op = "canViewKid") => result = GuestAnswer

\* C7, amended: the evaluator's role is guest, and it answers every check
\* as a guest, exactly when no role or an empty role is supplied; any
\* non-empty role string, recognized or not, is kept as the role.
C7_MissingRoleIsGuest ==
    /\ ~RoleSupplied =>
        /\ userRole = "guest"
        /\ <<canCreate, canEdit, canDelete, canView>> = <<FALSE, FALSE, FALSE, TRUE>>
        /\ (FieldCheckDone \/ op = "canViewKid") => result = GuestAnswer
    /\ RoleSupplied => userRole = userData.role

C7_Witness ==
    /\ userData.present
    /\ userData.role = ""
    /\ userRole = "guest"
    /\ op = "canViewKid"
    /\ result = Ret(TRUE)

\* the fixed role table: <<create, edit, delete, view>>
FlagTable(role) ==
    CASE role = "admin" -> <<TRUE, TRUE, TRUE, TRUE>>
      [] role = "instructor" -> <<TRUE, TRUE, FALSE, TRUE>>
      [] role = "parent" -> <<FALSE, FALSE, FALSE, TRUE>>
      [] role = "guest" -> <<FALSE, FALSE, FALSE, TRUE>>

\* C8: the capability flags equal the fixed role table and stay so
\* whatever record is evaluated afterwards.
C8_FlagsFollowRoleTable ==
    userRole \in {"admin", "instructor", "parent", "guest"} =>
        <<canCreate, canEdit, canDelete, canView>> = FlagTable(userRole)

C8_Witness ==
    /\ userRole = "instructor"
    /\ op = "canViewKid"
    /\ inKid.exists
    /\ canCreate /\ canEdit /\ ~canDelete /\ canView

\* an allow-list entry without its trailing wildcard marker
StripTrailingWildcard(e) ==
    IF Len(e) >= 2 /\ SubSeq(e, Len(e) - 1, Len(e)) = ".*"
    THEN SubSeq(e, 1, Len(e) - 2) ELSE e

\* C9: for a parent on an owned record, canViewField(F) is true exactly
\* when F is not in the parent deny-list and F equals, or starts with, an
\* entry of the parent allow-list (less its trailing wildcard marker).
C9_ParentViewRule ==
    (userRole = "parent" /\ op = "canViewField" /\ ParentLinked(CtxKid)) =>
        result = Ret(/\ inField \notin parentCannotView
                     /\ \E e \in parentCanView :
                            \/ inField = e
                            \/ StartsWith(inField, StripTrailingWildcard(e)))

C9_Witness ==
    /\ userRole = "parent"
    /\ op = "canViewField"
    /\ ParentLinked(CtxKid)
    /\ inKid.parentInfo.parentIds = <<"user-123">>
    /\ inField = "participantNumber"
    /\ result = Ret(TRUE)

\* C10: for a parent on an owned record, canEditField(F) is true exactly
\* when F is one of the seven parent edit-list entries.
C10_ParentEditRule ==
    (userRole = "parent" /\ op = "canEditField" /\ ParentLinked(CtxKid)) =>
        result = Ret(inField \in
            {"comments.parent", "notes", "personalInfo.photo", "parentInfo.phone",
             "contactNumber", "parentInfo.grandparentsInfo.names",
             "parentInfo.grandparentsInfo.phone"})

C10_Witness ==
    /\ userRole = "parent"
    /\ op = "canEditField"
    /\ ParentLinked(CtxKid)
    /\ inField = "personalInfo.photo"
    /\ result = Ret(TRUE)

\* C11: for a guest, canViewField does not look at the record: whatever
\* kidData is (none included) it is true exactly when the path is in the
\* guest allow-list and not in the guest deny-list; parentInfo.email is
\* never viewable.
C11_GuestViewRule ==
    (userRole = "guest" /\ op = "canViewField" /\ inCtx.kind # "null") =>
        /\ result = Ret(inField \in guestCanView /\ inField \notin guestCannotView)
        /\ inField = "parentInfo.email" => result = Ret(FALSE)

C11_Witness ==
    /\ userRole = "guest"
    /\ op = "canViewField"
    /\ inCtx = CtxOf(MissingKid)
    /\ inField = "participantNumber"
    /\ result = Ret(TRUE)

\* C12: for a guest, canEditField is true exactly for comments.organization,
\* on every record.
C12_GuestEditRule ==
    (userRole = "guest" /\ op = "canEditField" /\ inCtx.kind # "null") =>
        result = Ret(inField = "comments.organization")

C12_Witness ==
    /\ userRole = "guest"
    /\ op = "canEditField"
    /\ inField = "comments.organization"
    /\ inKid.exists
    /\ result = Ret(TRUE)

\* C13: for an instructor linked to the record, canViewField is true for
\* every path and canEditField is true exactly for the nine instructor
\* edit-list entries.
C13_InstructorLinkedRule ==
    (userRole = "instructor" /\ FieldCheckDone /\ CtxKid.exists
        /\ CtxKid.instructorId = userData.instructorId) =>
        /\ op = "canViewField" => result = Ret(TRUE)
        /\ op = "canEditField" => result = Ret(inField \in
            {"comments.teamLeader", "instructorComments", "medicalNotes",
             "vehicle.batteryType", "vehicle.batteryDate", "vehicle.driveType",
             "vehicle.steeringType", "vehicle.notes", "vehicle.modifications"})

C13_Witness ==
    /\ userRole = "instructor"
    /\ userData.instructorId = "inst-1"
    /\ inKid.exists
    /\ inKid.instructorId = "inst-1"
    /\ op = "canEditField"
    /\ inField = "medicalNotes"
    /\ result = Ret(TRUE)

\* C14: no call of the evaluator throws: with an undefined or null context,
\* an undefined or null record, or a record without parentInfo, every check
\* returns a result.
C14_NeverThrows == ~result.threw

-----------------------------------------------------------------------------
(* filterData as a state machine: one evaluator, one record object; the    *)
(* record is filtered, and the copy that came back is filtered again       *)

\* the callers of filterData: every role, an instructor with and without an
\* instructorId
FilterUserDataInputs ==
    {NoUserData} \cup
    {[present |-> TRUE, role |-> r, instructorId |-> Undefined] :
        r \in {"admin", "parent", "guest", "instructor", "superuser"}} \cup
    {[present |-> TRUE, role |-> "instructor", instructorId |-> "inst-1"]}

InitFilter ==
    /\ user \in UserInputs
    /\ userData \in FilterUserDataInputs
    /\ userRole = RoleOf(userData)
    /\ canCreate = canCreateContent
    /\ canEdit = canEditContent
    /\ canDelete = canDeleteContent
    /\ canView = canViewContent
    /\ inData \in DataInputs
    /\ inType \in {"kid", "vehicle"}
    /\ inKid = inData.kid
    /\ inField = "participantNumber"
    /\ inCtx = CtxOf(inKid)
    /\ op = "none"
    /\ result = NoResult
    /\ once = NoData
    /\ twice = NoData
    /\ NoPageMounted
    /\ NoServiceActivity

\* const once = permissions.filterData(data, type)
CallFilterData ==
    /\ op = "none"
    /\ LET r == filterData(inData, inType)
       IN /\ once' = r.filtered
          /\ inData' = r.data
    /\ op' = "filterData"
    /\ UNCHANGED <<evaluator, inputs, inType, twice, result, dashVars, serviceVars>>

\* const twice = permissions.filterData(once, type); the nested objects of
\* once are those of data
CallFilterDataAgain ==
    /\ op = "filterData"
    /\ LET r == filterData(once, inType)
           gone == once.nodes \ r.data.nodes
       IN /\ twice' = r.filtered
          /\ once' = r.data
          /\ inData' = [kid |-> IF HasNode(once, "parentInfo")
                                THEN [inData.kid EXCEPT !.parentInfo = r.data.kid.parentInfo]
                                ELSE inData.kid,
                        nodes |-> inData.nodes \ gone]
    /\ op' = "filterAgain"
    /\ UNCHANGED <<evaluator, inputs, inType, result, dashVars, serviceVars>>

NextFilter == CallFilterData \/ CallFilterDataAgain

SpecFilter == InitFilter /\ [][NextFilter]_vars

-----------------------------------------------------------------------------
(* Properties of filterData                                                *)

\* C15: filterData is idempotent: filtering the object that filterData
\* returned gives that object again and changes nothing in it, for every
\* role, type and record.
C15_FilterIdempotent ==
    [][op' = "filterAgain" => (twice' = once /\ once' = once)]_vars

C15_Witness ==
    /\ op = "filterAgain"
    /\ userRole = "guest"
    /\ inType = "kid"
    /\ "signedDeclaration" \in inData.nodes
    /\ "signedDeclaration" \notin once.nodes
    /\ "participantNumber" \in once.nodes
    /\ twice = once

Range(seq) == {seq[i] : i \in DOMAIN seq}

\* the enumerated fields of the type that canViewField refuses on record d
Refused(d, type) ==
    {f \in Range(fieldsToCheck(type)) : canViewField(f, CtxOf(d.kid)) = Ret(FALSE)}

\* C16: for a non-admin caller filterData returns the record without the
\* enumerated fields that canViewField refuses (each with what is below
\* it) and with everything else as it was: the enclosing objects, the
\* sibling keys, the fields outside the enumeration and the ownership
\* values; for an admin it returns the record itself.
C16_FilterRemovesExactlyRefused ==
    [][op' = "filterData" =>
        IF userRole = "admin" THEN once' = inData
        ELSE /\ once'.nodes =
                    {n \in inData.nodes :
                        \A f \in Refused(inData, inType) :
                            n # f /\ ~StartsWith(n, f \o ".")}
             /\ once'.kid = ShallowCopy(inData).kid]_vars

C16_Witness ==
    /\ op = "filterData"
    /\ userRole = "guest"
    /\ inType = "kid"
    /\ {"comments", "personalInfo", "personalInfo.firstName", "personalInfo.address",
        "teamId", "participantNumber"} \subseteq once.nodes
    /\ "comments.parent" \notin once.nodes
    /\ "parentInfo.email" \notin once.nodes
    /\ "signedDeclaration" \notin once.nodes

\* C17: no operation changes its inputs or the evaluator: after a call the
\* record passed in, its nested objects included, and the evaluator's role
\* and flags are as before.
C17_NoSideEffects ==
    [][inData' = inData /\ evaluator' = evaluator]_vars

Rotate(seq, k) == [i \in 1..Len(seq) |-> seq[((i + k - 1) % Len(seq)) + 1]]
Reverse(seq) == [i \in 1..Len(seq) |-> seq[Len(seq) + 1 - i]]

\* the orders in which the enumeration is walked: the code's order and its
\* reverse, each rotated by up to MaxRotation places
OrderInputs(type) ==
    LET fs == fieldsToCheck(type)
    IN {Rotate(fs, k) : k \in 0..MaxRotation} \cup
       {Rotate(Reverse(fs), k) : k \in 0..MaxRotation}

\* C18: evaluation order does not matter: on the record as it is after any
\* calls of filterData every field check answers as on the record as it
\* was, and filterData returns the same object in whatever order the
\* enumerated fields are checked.
C18_OrderDoesNotMatter ==
    /\ \A f \in FieldInputs :
        /\ canViewField(f, CtxOf(inData.kid)) = canViewField(f, CtxOf(inKid))
        /\ canEditField(f, CtxOf(inData.kid)) = canEditField(f, CtxOf(inKid))
    /\ op = "none" =>
        LET inCodeOrder == filterData(inData, inType).filtered
        IN \A order \in OrderInputs(inType) :
                filterDataIn(inData, order).filtered = inCodeOrder

C18_Witness ==
    /\ op = "filterData"
    /\ userRole = "parent"
    /\ inType = "kid"
    /\ isParent(inKid)
    /\ {"comments", "comments.parent"} \subseteq inData.nodes
    /\ "comments.organization" \notin inData.nodes
    /\ "personalInfo.firstName" \in inData.nodes
    /\ canViewField("comments.parent", CtxOf(inData.kid)) = Ret(TRUE)

-----------------------------------------------------------------------------
(* The dashboards and the evaluator                                        *)

\* the name fields both dashboards render in the card header
NameFields == {"personalInfo.firstName", "personalInfo.lastName"}

\* C19: the name fields the dashboards render are viewable: for a parent
\* on a kid they own and for a guest on any kid, canViewField of
\* 'personalInfo.firstName' and of 'personalInfo.lastName' returns true
\* (so that getFieldValue returns the stored name).
C19_NameFieldsViewable ==
    ( /\ op = "canViewField"
      /\ inField \in NameFields
      /\ inCtx.kind = "object"
      /\ inCtx.kidData.exists
      /\ \/ userRole = "parent" /\ ParentLinked(CtxKid)
         \/ userRole = "guest" )
    => result = Ret(TRUE)

-----------------------------------------------------------------------------
(* HostDashboardPage and ParentDashboardPage: one mounted page whose       *)
(* loading effect runs on mount and again whenever its dependencies        *)
(* (userRole, user, the language) change.  A run that passes the role gate *)
(* is asynchronous: it waits for each getDocs, and an earlier run may      *)
(* still be waiting when the effect runs again.                            *)

\* how often the loading effect runs on one mount
MaxEffectRuns == 3

HostPage == "HostDashboardPage"
ParentPage == "ParentDashboardPage"

\* t(key, fallback) with the fallback texts
AccessDeniedHost == "Access denied: Host/Guest credentials required"
AccessDeniedParent == "Access denied: Parent credentials required"
FailedToLoadHost == "Failed to load data. Please try again."
FailedToLoadParent == "Failed to load your kids data. Please try again."

\* the roles a session can carry (null while none is known)
PageRoleInputs == {"host", "guest", "parent", "admin", "instructor", Undefined}

\* user?.uid
PageUidInputs == {CallerUid, Undefined}

KidDoc(id, teamId, parentIds, organization, parent) ==
    [id |-> id, teamId |-> teamId, parentIds |-> parentIds,
     organization |-> organization, parent |-> parent]

\* kid documents: on a team or not, of the caller or of somebody else, with
\* and without comments
Kid1 == KidDoc("kid-1", "team-1", {CallerUid}, "Needs ramp", "See you there")
Kid2 == KidDoc("kid-2", Undefined, {CallerUid, "other-parent"}, Undefined, Undefined)
Kid3 == KidDoc("kid-3", "team-2", {"other-parent"}, Undefined, "Running late")

DbKidsInputs == {<<>>, <<Kid1>>, <<Kid1, Kid2>>, <<Kid2, Kid3>>}
DbEventsInputs == {<<>>, <<[id |-> "event-1"]>>}

\* the gate of HostDashboardPage widened to let 'parent' through
hostAccessDenied_AdmitsParent(role) ==
    role # "host" /\ role # "guest" /\ role # "parent"

\* if (userRole !== 'host' && userRole !== 'guest')
hostAccessDenied(role) == role # "host" /\ role # "guest"

\* if (!user?.uid || userRole !== 'parent')
parentAccessDenied(uid, role) == ~Truthy(uid) \/ role # "parent"

\* allKids.filter(kid => kid.teamId)
registered(allKids) == SelectSeq(allKids, LAMBDA kid : Truthy(kid.teamId))

\* where('parentInfo.parentIds', 'array-contains', user.uid)
kidsOfParent(allKids, uid) == SelectSeq(allKids, LAMBDA kid : uid \in kid.parentIds)

\* initialComments[kid.id] = kid.comments?.[key] || ''
initialComments(kidsData, key) ==
    {[id |-> kidsData[i].id,
      text |-> IF Truthy(kidsData[i][key]) THEN kidsData[i][key] ELSE ""] :
        i \in DOMAIN kidsData}

\* a run that passed the gate and called getDocs
NewLoad(uid, role, pc) == [uid |-> uid, role |-> role, pc |-> pc, eventsData |-> <<>>]

\* a page is rendered for a session; nothing has run yet.  The evaluator
\* the page holds is not called by the loaders.
InitDash ==
    /\ user \in UserInputs
    /\ userData = NoUserData
    /\ userRole = RoleOf(userData)
    /\ canCreate = canCreateContent
    /\ canEdit = canEditContent
    /\ canDelete = canDeleteContent
    /\ canView = canViewContent
    /\ inKid = MissingKid
    /\ inField = "participantNumber"
    /\ inCtx = CtxOmitted
    /\ op = "none"
    /\ result = NoResult
    /\ inData = NoData
    /\ inType = "kid"
    /\ once = NoData
    /\ twice = NoData
    /\ page \in {HostPage, ParentPage}
    /\ pageUserRole \in PageRoleInputs
    /\ pageUid \in PageUidInputs
    /\ dbEvents \in DbEventsInputs
    /\ dbKids \in DbKidsInputs
    /\ loading = TRUE
    /\ error = ""
    /\ events = <<>>
    /\ registeredKids = <<>>
    /\ kids = <<>>
    /\ commentTexts = {}
    /\ reads = 0
    /\ loads = <<>>
    /\ effectRuns = 0
    /\ NoCommentActivity
    /\ NoServiceActivity

\* loadHostData up to its first await
loadHostData ==
    IF hostAccessDenied(pageUserRole')
    THEN /\ error' = AccessDeniedHost
         /\ loading' = FALSE
         /\ UNCHANGED <<reads, loads>>
    ELSE /\ error' = ""
         /\ reads' = reads + 1
         /\ loads' = Append(loads, NewLoad(pageUid', pageUserRole', "events"))
         /\ UNCHANGED loading

\* loadParentKids up to its await
loadParentKids ==
    IF parentAccessDenied(pageUid', pageUserRole')
    THEN /\ error' = AccessDeniedParent
         /\ loading' = FALSE
         /\ UNCHANGED <<reads, loads>>
    ELSE /\ error' = ""
         /\ reads' = reads + 1
         /\ loads' = Append(loads, NewLoad(pageUid', pageUserRole', "kids"))
         /\ UNCHANGED loading

\* the effect callback: the page's loader is called
RunLoader ==
    /\ effectRuns' = effectRuns + 1
    /\ IF page = HostPage THEN loadHostData ELSE loadParentKids
    /\ UNCHANGED <<page, database, events, registeredKids, kids, commentTexts>>
    /\ UNCHANGED <<permVars, serviceVars, commentVars>>

\* useEffect(() => { ... }, [...]) after the first render
MountEffect ==
    /\ effectRuns = 0
    /\ UNCHANGED <<pageUserRole, pageUid>>
    /\ RunLoader

\* a render with changed dependencies: the session's role or user, or the
\* language only
DepsChange ==
    /\ effectRuns \in 1..(MaxEffectRuns - 1)
    /\ pageUserRole' \in PageRoleInputs
    /\ pageUid' \in PageUidInputs
    /\ RunLoader

\* await getDocs(eventsQuery) resolves; the kids query is issued
EventsSnapshot(i) ==
    /\ loads[i].pc = "events"
    /\ loads' = [loads EXCEPT ![i].pc = "kids", ![i].eventsData = dbEvents]
    /\ reads' = reads + 1
    /\ UNCHANGED <<session, database, pageState, effectRuns>>
    /\ UNCHANGED <<permVars, serviceVars, commentVars>>

\* await getDocs(kidsQuery) resolves in loadHostData; finally
HostKidsSnapshot(i) ==
    /\ page = HostPage
    /\ loads[i].pc = "kids"
    /\ LET allKids == dbKids
           registeredNow == registered(allKids)
       IN /\ events' = loads[i].eventsData
          /\ registeredKids' = registeredNow
          /\ commentTexts' = initialComments(registeredNow, "organization")
    /\ loading' = FALSE
    /\ loads' = [loads EXCEPT ![i].pc = "done"]
    /\ UNCHANGED <<session, database, error, kids, reads, effectRuns>>
    /\ UNCHANGED <<permVars, serviceVars, commentVars>>

\* await getDocs(kidsQuery) resolves in loadParentKids; finally
ParentKidsSnapshot(i) ==
    /\ page = ParentPage
    /\ loads[i].pc = "kids"
    /\ LET kidsData == kidsOfParent(dbKids, loads[i].uid)
       IN /\ kids' = kidsData
          /\ commentTexts' = initialComments(kidsData, "parent")
    /\ loading' = FALSE
    /\ loads' = [loads EXCEPT ![i].pc = "done"]
    /\ UNCHANGED <<session, database, error, events, registeredKids, reads, effectRuns>>
    /\ UNCHANGED <<permVars, serviceVars, commentVars>>

\* a getDocs rejects: catch, finally
ReadRejected(i) ==
    /\ loads[i].pc \in {"events", "kids"}
    /\ error' = IF page = HostPage THEN FailedToLoadHost ELSE FailedToLoadParent
    /\ loading' = FALSE
    /\ loads' = [loads EXCEPT ![i].pc = "done"]
    /\ UNCHANGED <<session, database, events, registeredKids, kids, commentTexts,
                   reads, effectRuns>>
    /\ UNCHANGED <<permVars, serviceVars, commentVars>>

NextDash ==
    \/ MountEffect
    \/ DepsChange
    \/ \E i \in DOMAIN loads : EventsSnapshot(i)
    \/ \E i \in DOMAIN loads : HostKidsSnapshot(i)
    \/ \E i \in DOMAIN loads : ParentKidsSnapshot(i)
    \/ \E i \in DOMAIN loads : ReadRejected(i)

SpecDash == InitDash /\ [][NextDash]_vars

-----------------------------------------------------------------------------
(* Properties of the dashboards' loaders                                   *)

\* the step is a run of the loading effect
EffectRan == effectRuns' = effectRuns + 1

\* the runs that have got past the gate after the step
AdmittedLoads == {loads'[i] : i \in DOMAIN loads'}

-----------------------------------------------------------------------------
(* The evaluator: relations between its checks                             *)

\* C24: edit implies view: for every role, record and field path, if
\* canEditField(F, ctx) is true then canViewField(F, ctx) is true.
C24_EditImpliesView ==
    (op = "canEditField" /\ result = Ret(TRUE))
        => canViewField(inField, inCtx) = Ret(TRUE)

\* some field check on record k answers true
SomeFieldAllowed(k) ==
    \E f \in FieldInputs :
        \/ canViewField(f, CtxOf(k)) = Ret(TRUE)
        \/ canEditField(f, CtxOf(k)) = Ret(TRUE)

\* every field check on record k answers false
EveryFieldRefused(k) ==
    \A f \in FieldInputs :
        /\ canViewField(f, CtxOf(k)) = Ret(FALSE)
        /\ canEditField(f, CtxOf(k)) = Ret(FALSE)

\* C25: the record-level gate and the field-level gate agree: if some
\* field check on {kidData: R} is true then canViewKid(R) is true, and for
\* parent and instructor canViewKid(R) false implies every field check on
\* R is false.
C25_RecordGateAgreesWithFieldGate ==
    op = "canViewKid" =>
        /\ SomeFieldAllowed(inKid) => result = Ret(TRUE)
        /\ (userRole \in {"parent", "instructor"} /\ result = Ret(FALSE))
                => EveryFieldRefused(inKid)

\* a parent linked by the legacy parentInfo.parentId only asked for the
\* record, and the field checks on it allow something
C25_Witness ==
    /\ op = "canViewKid"
    /\ userRole = "parent"
    /\ inKid.exists
    /\ inKid.parentInfo.parentId = user.uid
    /\ ~inKid.parentInfo.hasParentIds
    /\ SomeFieldAllowed(inKid)
    /\ result = Ret(TRUE)

\* what AuthProvider can put into a session: allowedRoles, 'host' being
\* the replacement of an invalid role
allowedRoles == {"admin", "instructor", "parent", "host"}

\* C26: every role the authentication layer can assign is a role
\* PermissionService recognizes: constructed with it, canView is true and
\* canViewKid is not false for every record; a 'host' can edit
\* 'comments.organization'.
C26_AssignedRolesRecognized ==
    (userData.present /\ userData.role \in allowedRoles) =>
        /\ canView
        /\ \E k \in KidInputs : canViewKid(k) = Ret(TRUE)
        /\ userData.role = "host" =>
                canEditField("comments.organization", CtxOf(inKid)) = Ret(TRUE)

-----------------------------------------------------------------------------
(* The dashboards' cards: expanding a kid and editing its comment.  A      *)
(* handler reads the state of the render it was created in; a synchronous  *)
(* handler runs against the current state, while the part of saveComments  *)
(* after `await updateDoc` still reads the saving, editingComments,        *)
(* commentTexts and kid list of the render in which Save was clicked.      *)

\* saveComments calls on one mount
MaxSaves == 2

\* what the user can have in the textarea
TextInputs == {"", "Bring helmet"}

SaveFailed == "Failed to save comments. Please try again."

\* the list the page renders its cards from
PageKids == IF page = HostPage THEN registeredKids ELSE kids

\* the key under kid.comments each page edits
CommentKey == IF page = HostPage THEN "organization" ELSE "parent"

\* the field path handed to updateDoc
CommentField == IF page = HostPage THEN "comments.organization" ELSE "comments.parent"

KidIds(kidsList) == {kidsList[i].id : i \in DOMAIN kidsList}

\* registeredKids.find(k => k.id === kidId)
FindKid(kidsList, kidId) ==
    kidsList[CHOOSE i \in DOMAIN kidsList :
                /\ kidsList[i].id = kidId
                /\ \A j \in DOMAIN kidsList : kidsList[j].id = kidId => i <= j]

\* kid.comments?.[key] || ''
StoredComment(kidsList, kidId) ==
    LET v == FindKid(kidsList, kidId)[CommentKey]
    IN IF Truthy(v) THEN v ELSE ""

\* commentTexts[kidId] || ''
TextOf(texts, kidId) ==
    IF \E r \in texts : r.id = kidId
    THEN (CHOOSE r \in texts : r.id = kidId).text
    ELSE ""

\* { ...commentTexts, [kidId]: text }
WithText(texts, kidId, text) ==
    {r \in texts : r.id # kidId} \cup {[id |-> kidId, text |-> text]}

\* the comment set on every kid of the list
WithStoredComment_AllKids(kidsList, kidId, text) ==
    [i \in DOMAIN kidsList |-> [kidsList[i] EXCEPT ![CommentKey] = text]]

\* kidsList.map(kid => kid.id === kidId
\*     ? { ...kid, comments: { ...kid.comments, [key]: text } } : kid)
WithStoredComment(kidsList, kidId, text) ==
    [i \in DOMAIN kidsList |->
        IF kidsList[i].id = kidId
        THEN [kidsList[i] EXCEPT ![CommentKey] = text]
        ELSE kidsList[i]]

\* the card of kidId is on screen: neither the loading nor the error view
CardShown(kidId) ==
    /\ page \in {HostPage, ParentPage}
    /\ ~loading
    /\ error = ""
    /\ kidId \in KidIds(PageKids)

\* the comment section of kidId is on screen
CommentSectionShown(kidId) == CardShown(kidId) /\ expandedKid = kidId

\* a click that expands always, also on the expanded card
nextExpandedKid_NeverCollapses(current, kidId) == kidId

\* expandedKid === kidId ? null : kidId
nextExpandedKid(current, kidId) == IF current = kidId THEN Null ELSE kidId

\* a page rendered for a session that its gate admits, or for a parent on
\* the host page; two kids are on the page once the load is through
InitComments ==
    /\ user \in UserInputs
    /\ userData = NoUserData
    /\ userRole = RoleOf(userData)
    /\ canCreate = canCreateContent
    /\ canEdit = canEditContent
    /\ canDelete = canDeleteContent
    /\ canView = canViewContent
    /\ inKid = MissingKid
    /\ inField = "participantNumber"
    /\ inCtx = CtxOmitted
    /\ op = "none"
    /\ result = NoResult
    /\ inData = NoData
    /\ inType = "kid"
    /\ once = NoData
    /\ twice = NoData
    /\ page \in {HostPage, ParentPage}
    /\ pageUserRole \in {"host", "parent"}
    /\ pageUid = CallerUid
    /\ dbEvents = <<[id |-> "event-1"]>>
    /\ dbKids = IF page = HostPage THEN <<Kid1, Kid2, Kid3>> ELSE <<Kid1, Kid2>>
    /\ loading = TRUE
    /\ error = ""
    /\ events = <<>>
    /\ registeredKids = <<>>
    /\ kids = <<>>
    /\ commentTexts = {}
    /\ reads = 0
    /\ loads = <<>>
    /\ effectRuns = 0
    /\ NoCommentActivity
    /\ NoServiceActivity

\* a saveComments call that has returned: its closure is gone
Finished(save) ==
    [kid |-> save.kid, text |-> save.text, kidsThen |-> <<>>,
     editingThen |-> {}, savingThen |-> {}, pc |-> "done"]

\* onClick={() => toggleKidExpansion(kid.id)}
toggleKidExpansion(kidId) ==
    /\ CardShown(kidId)
    /\ expandedKid' = nextExpandedKid(expandedKid, kidId)
    /\ lastCall' = [name |-> "toggleKidExpansion", kid |-> kidId]
    /\ UNCHANGED <<editingComments, saving, saves, writes>>
    /\ UNCHANGED <<permVars, serviceVars, session, database, pageState, loaderVars>>

\* onClick={() => startEditingComments(kid.id)}: the Edit button, shown
\* while the kid is not being edited
startEditingComments(kidId) ==
    /\ CommentSectionShown(kidId)
    /\ kidId \notin editingComments
    /\ editingComments' = editingComments \cup {kidId}
    /\ lastCall' = [name |-> "startEditingComments", kid |-> kidId]
    /\ UNCHANGED <<expandedKid, saving, saves, writes>>
    /\ UNCHANGED <<permVars, serviceVars, session, database, pageState, loaderVars>>

\* the textarea's onChange
changeCommentText(kidId, text) ==
    /\ CommentSectionShown(kidId)
    /\ kidId \in editingComments
    /\ commentTexts' = WithText(commentTexts, kidId, text)
    /\ lastCall' = [name |-> "changeCommentText", kid |-> kidId]
    /\ UNCHANGED <<expandedKid, editingComments, saving, saves, writes>>
    /\ UNCHANGED <<permVars, serviceVars, session, database, loaderVars>>
    /\ UNCHANGED <<loading, error, events, registeredKids, kids>>

\* a cancel that leaves the typed text in commentTexts
cancelEditingComments_KeepsText(kidId) ==
    /\ CommentSectionShown(kidId)
    /\ kidId \in editingComments
    /\ kidId \notin saving
    /\ editingComments' = editingComments \ {kidId}
    /\ lastCall' = [name |-> "cancelEditingComments", kid |-> kidId]
    /\ UNCHANGED <<expandedKid, saving, saves, writes>>
    /\ UNCHANGED <<permVars, serviceVars, session, database, loaderVars>>
    /\ UNCHANGED <<loading, error, events, registeredKids, kids, commentTexts>>

\* onClick={() => cancelEditingComments(kid.id)}, disabled while saving
cancelEditingComments(kidId) ==
    /\ CommentSectionShown(kidId)
    /\ kidId \in editingComments
    /\ kidId \notin saving
    /\ editingComments' = editingComments \ {kidId}
    /\ commentTexts' = WithText(commentTexts, kidId, StoredComment(PageKids, kidId))
    /\ lastCall' = [name |-> "cancelEditingComments", kid |-> kidId]
    /\ UNCHANGED <<expandedKid, saving, saves, writes>>
    /\ UNCHANGED <<permVars, serviceVars, session, database, loaderVars>>
    /\ UNCHANGED <<loading, error, events, registeredKids, kids>>

\* onClick={() => saveComments(kid.id)}, disabled while saving: the part
\* of saveComments before the await, with what its closure holds
saveComments(kidId) ==
    /\ CommentSectionShown(kidId)
    /\ kidId \in editingComments
    /\ kidId \notin saving
    /\ Len(saves) < MaxSaves
    /\ saving' = saving \cup {kidId}
    /\ saves' = Append(saves, [kid |-> kidId,
                               text |-> TextOf(commentTexts, kidId),
                               kidsThen |-> PageKids,
                               editingThen |-> editingComments,
                               savingThen |-> saving,
                               pc |-> "updateDoc"])
    /\ lastCall' = [name |-> "saveComments", kid |-> kidId]
    /\ UNCHANGED <<expandedKid, editingComments, writes>>
    /\ UNCHANGED <<permVars, serviceVars, session, database, pageState, loaderVars>>

\* await updateDoc(...) resolves: the document is written; the local list,
\* the editing flags and the saving flags are set from the closure
UpdateDocResolved(i) ==
    /\ saves[i].pc = "updateDoc"
    /\ LET save == saves[i]
           updated == WithStoredComment(save.kidsThen, save.kid, save.text)
       IN /\ dbKids' = WithStoredComment(dbKids, save.kid, save.text)
          /\ writes' = Append(writes, [kid |-> save.kid, field |-> CommentField,
                                       value |-> save.text])
          /\ IF page = HostPage
             THEN registeredKids' = updated /\ UNCHANGED kids
             ELSE kids' = updated /\ UNCHANGED registeredKids
          /\ editingComments' = save.editingThen \ {save.kid}
          /\ saving' = save.savingThen \ {save.kid}
          /\ lastCall' = [name |-> "updateDocResolved", kid |-> save.kid]
    /\ saves' = [saves EXCEPT ![i] = Finished(saves[i])]
    /\ UNCHANGED <<expandedKid, dbEvents, loading, error, events, commentTexts>>
    /\ UNCHANGED <<permVars, serviceVars, session, loaderVars>>

\* await updateDoc(...) rejects: catch, finally
UpdateDocRejected(i) ==
    /\ saves[i].pc = "updateDoc"
    /\ error' = SaveFailed
    /\ saving' = saves[i].savingThen \ {saves[i].kid}
    /\ lastCall' = [name |-> "updateDocRejected", kid |-> saves[i].kid]
    /\ saves' = [saves EXCEPT ![i] = Finished(saves[i])]
    /\ UNCHANGED <<expandedKid, editingComments, writes>>
    /\ UNCHANGED <<loading, events, registeredKids, kids, commentTexts>>
    /\ UNCHANGED <<permVars, serviceVars, session, database, loaderVars>>

NextComments ==
    \/ MountEffect
    \/ \E i \in DOMAIN loads : EventsSnapshot(i)
    \/ \E i \in DOMAIN loads : HostKidsSnapshot(i)
    \/ \E i \in DOMAIN loads : ParentKidsSnapshot(i)
    \/ \E i \in DOMAIN loads : ReadRejected(i)
    \/ \E kidId \in KidIds(PageKids) : toggleKidExpansion(kidId)
    \/ \E kidId \in KidIds(PageKids) : startEditingComments(kidId)
    \/ \E kidId \in KidIds(PageKids), text \in TextInputs : changeCommentText(kidId, text)
    \/ \E kidId \in KidIds(PageKids) : cancelEditingComments(kidId)
    \/ \E kidId \in KidIds(PageKids) : saveComments(kidId)
    \/ \E i \in DOMAIN saves : UpdateDocResolved(i)
    \/ \E i \in DOMAIN saves : UpdateDocRejected(i)

SpecComments == InitComments /\ [][NextComments]_vars

-----------------------------------------------------------------------------
(* Properties of the cards and the comment editing                         *)

\* the step is a run of the named handler or continuation
Called(name) == lastCall'.name = name /\ UNCHANGED loaderVars

\* the comment of kid kidId as a kid list holds it: kid.comments?.[key] || ''
LocalComment(kidsList, kidId) ==
    LET held == {kidsList[i][CommentKey] : i \in {j \in DOMAIN kidsList : kidsList[j].id = kidId}}
    IN IF held \subseteq {Undefined, ""} THEN "" ELSE CHOOSE v \in held : Truthy(v)

\* C21: at most one kid is expanded at any time: after a
\* toggleKidExpansion call expandedKid is null or the id of the kid
\* toggled last, toggling the expanded kid collapses it, expanding a second
\* kid collapses the first, and nothing else changes expandedKid.
C21_AtMostOneExpanded ==
    [][ /\ Called("toggleKidExpansion") =>
            LET k == lastCall'.kid
            IN /\ expandedKid' \in {Null, k}
               /\ expandedKid = k => expandedKid' = Null
               /\ expandedKid # k => expandedKid' = k
        /\ ~Called("toggleKidExpansion") => expandedKid' = expandedKid
      ]_vars

\* a second kid was expanded while the first, expanded earlier, is still
\* being edited
C21_Witness ==
    /\ lastCall.name = "toggleKidExpansion"
    /\ expandedKid = lastCall.kid
    /\ \E first \in editingComments : first # expandedKid

\* C22: cancelling a comment edit restores the previous value: after
\* cancelEditingComments(k), k is not in editing mode, commentTexts[k] is
\* the comment stored for k in local state, and nothing is written.
C22_CancelRestores ==
    [][ Called("cancelEditingComments") =>
            LET k == lastCall'.kid
            IN /\ k \notin editingComments'
               /\ TextOf(commentTexts', k) = LocalComment(PageKids', k)
               /\ PageKids' = PageKids
               /\ writes' = writes
               /\ saves' = saves
               /\ dbKids' = dbKids
      ]_vars

\* a comment was saved, edited again and cancelled: the text is back at
\* the saved comment, and one write has happened in all
C22_Witness ==
    /\ lastCall.name = "cancelEditingComments"
    /\ Len(writes) = 1
    /\ writes[1].kid = lastCall.kid
    /\ writes[1].value = "Bring helmet"
    /\ TextOf(commentTexts, lastCall.kid) = "Bring helmet"
    /\ LocalComment(PageKids, lastCall.kid) = "Bring helmet"
    /\ lastCall.kid \notin editingComments
    /\ \A i \in DOMAIN saves : saves[i].pc = "done"

\* the saveComments call whose updateDoc settles in the step
Settled(i) == i \in DOMAIN saves /\ saves[i].pc = "updateDoc" /\ saves'[i].pc = "done"

\* a document list with the comment of kid kidId set to text and nothing
\* else changed
OnlyCommentSet(before, after, kidId, text) ==
    /\ DOMAIN after = DOMAIN before
    /\ \A j \in DOMAIN before :
        after[j] = IF before[j].id = kidId
                   THEN [before[j] EXCEPT ![CommentKey] = text]
                   ELSE before[j]

C27_SavesDoNotInterfere ==
    [][ Called("updateDocResolved") =>
            \A B \in KidIds(PageKids) \ {lastCall'.kid} :
                /\ (B \in editingComments') = (B \in editingComments)
                /\ (B \in saving') = (B \in saving)
                /\ LocalComment(PageKids', B) = LocalComment(PageKids, B)
      ]_vars

-----------------------------------------------------------------------------
(* retryFirestoreRead(docRef, maxRetries, baseDelay): one call, step by    *)
(* step.  Each getDoc sees the document as it is at that moment: missing,  *)
(* or there with some role value.  retry.seen and retry.waits record the   *)
(* snapshots read and the delays asked for.                                *)

\* largest maxRetries argument tried
MaxRetriesInput == 3

\* a snapshot of the user document: doc.exists() and the role in doc.data()
DocMissing == [exists |-> FALSE, role |-> Undefined, roleType |-> "undefined"]
DocWith(role, roleType) == [exists |-> TRUE, role |-> role, roleType |-> roleType]

\* missing; no role; an empty role; a role that is not a string; a role
DocInputs ==
    {DocMissing, DocWith(Undefined, "undefined"), DocWith("", "string"),
     DocWith("5", "number"), DocWith("parent", "string")}

\* data.role && typeof data.role === 'string'
hasRole(data) == Truthy(data.role) /\ data.roleType = "string"

\* every existing document returned at once
returnsNow_AnyExisting(data, attempt, maxRetries) == TRUE

\* if (hasRole || attempt === maxRetries)
returnsNow(data, attempt, maxRetries) == hasRole(data) \/ attempt = maxRetries

\* baseDelay * Math.pow(2, attempt - 1)
waitTime(baseDelay, attempt) == baseDelay * 2^(attempt - 1)

\* the call is made: attempt = 1
InitRetry ==
    /\ user \in UserInputs
    /\ userData = NoUserData
    /\ userRole = RoleOf(userData)
    /\ canCreate = canCreateContent
    /\ canEdit = canEditContent
    /\ canDelete = canDeleteContent
    /\ canView = canViewContent
    /\ inKid = MissingKid
    /\ inField = "participantNumber"
    /\ inCtx = CtxOmitted
    /\ op = "none"
    /\ result = NoResult
    /\ inData = NoData
    /\ inType = "kid"
    /\ once = NoData
    /\ twice = NoData
    /\ NoPageMounted
    /\ auth = NoAuth
    /\ kidSvc = NoKidSvc
    /\ \E maxRetries \in 0..MaxRetriesInput, baseDelay \in {1000} :
        retry = [NoRetry EXCEPT !.maxRetries = maxRetries, !.baseDelay = baseDelay,
                                !.attempt = 1, !.pc = "for"]

\* for (...; attempt <= maxRetries; ...): getDoc is called, or the loop is
\* left and { exists: false, data: null } returned
LoopTest ==
    /\ retry.pc = "for"
    /\ retry' = IF retry.attempt <= retry.maxRetries
                THEN [retry EXCEPT !.pc = "getDoc", !.reads = @ + 1]
                ELSE [retry EXCEPT !.pc = "returned",
                                   !.result = [exists |-> FALSE, data |-> NullData]]
    /\ UNCHANGED <<permVars, dashVars, auth, kidSvc>>

\* await getDoc(docRef) resolves with snapshot doc: the loop body
GetDocResolved(doc) ==
    /\ retry.pc = "getDoc"
    /\ LET read == [retry EXCEPT !.seen = Append(@, doc)]
           waiting == [read EXCEPT !.pc = "delay",
                                   !.waits = Append(@, waitTime(retry.baseDelay, retry.attempt))]
           nextAttempt == [read EXCEPT !.pc = "for", !.attempt = @ + 1]
       IN retry' =
            IF doc.exists /\ returnsNow(doc, retry.attempt, retry.maxRetries)
            THEN [read EXCEPT !.pc = "returned",
                              !.result = [exists |-> TRUE, data |-> doc]]
            ELSE IF retry.attempt < retry.maxRetries THEN waiting ELSE nextAttempt
    /\ UNCHANGED <<permVars, dashVars, auth, kidSvc>>

\* await getDoc(docRef) rejects: the exception leaves the function
GetDocRejected ==
    /\ retry.pc = "getDoc"
    /\ retry' = [retry EXCEPT !.pc = "threw"]
    /\ UNCHANGED <<permVars, dashVars, auth, kidSvc>>

\* await delay(waitTime) is over: attempt++
DelayElapsed ==
    /\ retry.pc = "delay"
    /\ retry' = [retry EXCEPT !.pc = "for", !.attempt = @ + 1]
    /\ UNCHANGED <<permVars, dashVars, auth, kidSvc>>

NextRetry ==
    \/ LoopTest
    \/ \E doc \in DocInputs : GetDocResolved(doc)
    \/ GetDocRejected
    \/ DelayElapsed

\* a pending getDoc settles and a timer fires: the continuation then runs
SpecRetry == InitRetry /\ [][NextRetry]_vars /\ WF_vars(NextRetry)

-----------------------------------------------------------------------------
(* Properties of retryFirestoreRead                                        *)

\* the call has returned or thrown
RetryDone == retry.pc \in {"returned", "threw"}

\* what holds of the reads, the waits and the result at every moment
RetryOutcome ==
    LET n == Len(retry.seen)
        last == retry.seen[n]
    IN /\ retry.reads <= retry.maxRetries
       /\ n <= retry.reads
       /\ \A i \in 1..n :
            (retry.seen[i].exists /\ hasRole(retry.seen[i])) =>
                /\ i = n
                /\ retry.pc = "returned"
                /\ retry.result = [exists |-> TRUE, data |-> retry.seen[i]]
       /\ (retry.pc = "returned" /\ retry.result.exists) =>
            /\ n >= 1
            /\ retry.result.data = last
            /\ last.exists
            /\ hasRole(last) \/ n = retry.maxRetries
       /\ (retry.pc = "returned" /\ ~retry.result.exists) =>
            /\ retry.result.data = NullData
            /\ n = retry.maxRetries
            /\ n >= 1 => ~last.exists
       /\ Len(retry.waits) <= n
       /\ Len(retry.waits) <= IF retry.maxRetries = 0 THEN 0 ELSE retry.maxRetries - 1
       /\ RetryDone => (Len(retry.waits) = IF retry.reads = 0 THEN 0 ELSE retry.reads - 1)
       /\ \A j \in DOMAIN retry.waits : retry.waits[j] = retry.baseDelay * 2^(j - 1)

\* C30: retryFirestoreRead(docRef, maxRetries) terminates after at most
\* maxRetries reads: it returns {exists: true, data} at the first attempt
\* whose document exists and has a non-empty string role, returns an
\* existing role-less document only on the last attempt, returns
\* {exists: false, data: null} when the document does not exist on the
\* last attempt, and waits (exponential backoff) only between attempts.
C30_RetryTerminates == []RetryOutcome /\ <>RetryDone

\* three reads: a missing document, a role-less one, and on the last
\* attempt a document with an empty role, which is returned; two waits
C30_Witness ==
    /\ retry.pc = "returned"
    /\ retry.maxRetries = 3
    /\ retry.reads = 3
    /\ retry.seen = <<DocMissing, DocWith(Undefined, "undefined"), DocWith("", "string")>>
    /\ retry.result = [exists |-> TRUE, data |-> DocWith("", "string")]
    /\ retry.waits = <<1000, 2000>>

-----------------------------------------------------------------------------
(* AuthProvider: the onAuthStateChanged handler, one delivery at a time.   *)
(* retryFirestoreRead, the e-mail query loop and createUserDocument are    *)
(* taken by their outcomes.  The handler's closure holds the currentUser   *)
(* of the first render (null), so its "different user" branch never runs.  *)

\* auth events delivered to one provider
MaxAuthEvents == 2

\* the role found in a user document: [role, typeof role]
RoleValue(role, roleType) == [role |-> role, roleType |-> roleType]

FirestoreRoleInputs ==
    {RoleValue(r, "string") : r \in {"admin", "instructor", "parent", "host",
                                     "guest", " parent ", " ", ""}}
    \cup {RoleValue(Undefined, "undefined"), RoleValue("5", "number")}

RECURSIVE TrimStart(_)
TrimStart(str) ==
    IF Len(str) > 0 /\ SubSeq(str, 1, 1) = " "
    THEN TrimStart(SubSeq(str, 2, Len(str)))
    ELSE str

RECURSIVE TrimEnd(_)
TrimEnd(str) ==
    IF Len(str) > 0 /\ SubSeq(str, Len(str), Len(str)) = " "
    THEN TrimEnd(SubSeq(str, 1, Len(str) - 1))
    ELSE str

\* String.prototype.trim
trim(str) == TrimEnd(TrimStart(str))

\* let userRole = firestoreData.role; trimmed when a non-empty string;
\* replaced by 'host' when it is not one of allowedRoles
validatedRole(data) ==
    LET isString == data.roleType = "string"
        trimmed == IF Truthy(data.role) /\ isString THEN trim(data.role) ELSE data.role
        isRoleValid == /\ Truthy(trimmed)
                       /\ isString
                       /\ Len(trim(trimmed)) > 0
                       /\ trim(trimmed) \in allowedRoles
    IN IF isRoleValid THEN trimmed ELSE "host"

\* setCurrentUser, setUserData, setUserRole, setError(null),
\* setLoading(false), setAuthInitialized(true)
signedInState(a, role, path) ==
    [a EXCEPT !.pc = "done", !.path = path, !.currentUser = CallerUid,
              !.userRole = role, !.error = Null,
              !.loading = FALSE, !.authInitialized = TRUE]

InitAuth ==
    /\ user \in UserInputs
    /\ userData = NoUserData
    /\ userRole = RoleOf(userData)
    /\ canCreate = canCreateContent
    /\ canEdit = canEditContent
    /\ canDelete = canDeleteContent
    /\ canView = canViewContent
    /\ inKid = MissingKid
    /\ inField = "participantNumber"
    /\ inCtx = CtxOmitted
    /\ op = "none"
    /\ result = NoResult
    /\ inData = NoData
    /\ inType = "kid"
    /\ once = NoData
    /\ twice = NoData
    /\ NoPageMounted
    /\ retry = NoRetry
    /\ kidSvc = NoKidSvc
    /\ auth = NoAuth

\* onAuthStateChanged delivers uid (Null: signed out): the handler up to
\* its first await
AuthStateChanged(uid) ==
    /\ auth.pc \in {"idle", "done"}
    /\ auth.events < MaxAuthEvents
    /\ auth' = IF uid = Null
               THEN [auth EXCEPT !.events = @ + 1, !.signedIn = FALSE, !.pc = "done",
                                 !.path = "signedOut", !.currentUser = Null,
                                 !.userRole = Null, !.error = Null,
                                 !.firestoreRole = NoStoredRole,
                                 !.loading = FALSE, !.authInitialized = TRUE]
               ELSE [auth EXCEPT !.events = @ + 1, !.signedIn = TRUE, !.pc = "readByUid",
                                 !.path = "none", !.firestoreRole = NoStoredRole,
                                 !.loading = TRUE]
    /\ UNCHANGED <<permVars, dashVars, retry, kidSvc>>

\* retryFirestoreRead(userRef, 3, 1000) returned a document
FoundByUid(data) ==
    /\ auth.pc = "readByUid"
    /\ auth' = [auth EXCEPT !.pc = "validate", !.path = "foundByUid",
                            !.firestoreRole = data]
    /\ UNCHANGED <<permVars, dashVars, retry, kidSvc>>

\* retryFirestoreRead returned { exists: false }: the e-mail query is next
NotFoundByUid ==
    /\ auth.pc = "readByUid"
    /\ auth' = [auth EXCEPT !.pc = "emailQuery"]
    /\ UNCHANGED <<permVars, dashVars, retry, kidSvc>>

\* one of the three e-mail queries found a document; it is copied to the
\* uid document (a failure of the copy is swallowed)
FoundByEmail(data) ==
    /\ auth.pc = "emailQuery"
    /\ auth' = [auth EXCEPT !.pc = "validate", !.path = "foundByEmail",
                            !.firestoreRole = data]
    /\ UNCHANGED <<permVars, dashVars, retry, kidSvc>>

\* all three e-mail queries came back empty
NotFoundByEmail ==
    /\ auth.pc = "emailQuery"
    /\ auth' = [auth EXCEPT !.pc = "create"]
    /\ UNCHANGED <<permVars, dashVars, retry, kidSvc>>

\* if (firestoreData): the role is validated, the document updated (a
\* failure of the update is swallowed) and the state set
RoleValidated ==
    /\ auth.pc = "validate"
    /\ auth' = signedInState(auth, validatedRole(auth.firestoreRole), auth.path)
    /\ UNCHANGED <<permVars, dashVars, retry, kidSvc>>

\* else: createUserDocument(user, {role: 'host'}) returned the new
\* document's data, or the data of a document that exists by now
UserDocumentCreated(role) ==
    /\ auth.pc = "create"
    /\ auth' = [auth EXCEPT !.pc = "done", !.path = "created", !.currentUser = CallerUid,
                            !.userRole = role, !.error = Null]
    /\ UNCHANGED <<permVars, dashVars, retry, kidSvc>>

\* a Firestore call of the try block rejected: catch
FirestoreError ==
    /\ auth.pc \in {"readByUid", "emailQuery", "create"}
    /\ auth' = [auth EXCEPT !.pc = "done", !.path = "error",
                            !.error = "Error loading user data",
                            !.currentUser = Null, !.userRole = Null]
    /\ UNCHANGED <<permVars, dashVars, retry, kidSvc>>

NextAuth ==
    \/ \E uid \in {Null, CallerUid} : AuthStateChanged(uid)
    \/ \E data \in FirestoreRoleInputs : FoundByUid(data)
    \/ NotFoundByUid
    \/ \E data \in FirestoreRoleInputs : FoundByEmail(data)
    \/ NotFoundByEmail
    \/ RoleValidated
    \/ \E data \in FirestoreRoleInputs : UserDocumentCreated(data.role)
    \/ FirestoreError

SpecAuth == InitAuth /\ [][NextAuth]_vars

\* the handler has run to its end for a signed-in user
HandlerDone == auth.pc = "done" /\ auth.signedIn

\* C28: the auth provider always leaves its loading state: once the
\* onAuthStateChanged handler has run to its end for a signed-in user, on
\* whichever path (found, found by e-mail, created, Firestore error),
\* loading is false and authInitialized is true.
C28_HandlerLeavesLoading ==
    HandlerDone => (~auth.loading /\ auth.authInitialized)

-----------------------------------------------------------------------------
(* kidService: addKid and getNextParticipantNumber against the kids        *)
(* collection.  kidSvc.kids holds the participantNumber of each document;  *)
(* every await of a call is a step of its own, so calls interleave.  A     *)
(* call is followed from the point where validateKid has accepted the      *)
(* data; the prepared document carries kidData.participantNumber.          *)

\* addKid calls on one collection
MaxAddKidCalls == 2

Digits == <<"0", "1", "2", "3", "4", "5", "6", "7", "8", "9">>

IsDigit(ch) == \E d \in DOMAIN Digits : Digits[d] = ch
DigitValue(ch) == (CHOOSE d \in DOMAIN Digits : Digits[d] = ch) - 1

\* the value of the digits str starts with from position i on, after acc
RECURSIVE LeadingDigits(_, _, _)
LeadingDigits(str, i, acc) ==
    IF i <= Len(str) /\ IsDigit(SubSeq(str, i, i))
    THEN LeadingDigits(str, i + 1, acc * 10 + DigitValue(SubSeq(str, i, i)))
    ELSE acc

\* parseInt(str) || 0 for strings without sign or leading white space
parseIntOrZero(str) ==
    IF Len(str) > 0 /\ IsDigit(SubSeq(str, 1, 1)) THEN LeadingDigits(str, 1, 0) ELSE 0

\* Number.prototype.toString for n >= 0
RECURSIVE toString(_)
toString(n) ==
    IF n < 10 THEN Digits[n + 1] ELSE toString(n \div 10) \o Digits[(n % 10) + 1]

\* str.padStart(3, '0')
RECURSIVE padStart3(_)
padStart3(str) == IF Len(str) >= 3 THEN str ELSE padStart3("0" \o str)

\* string order of orderBy('participantNumber'): a sorts before b
RECURSIVE StringBefore(_, _)
StringBefore(a, b) ==
    IF Len(a) = 0 THEN Len(b) > 0
    ELSE IF Len(b) = 0 THEN FALSE
    ELSE LET x == DigitValue(SubSeq(a, 1, 1))
             y == DigitValue(SubSeq(b, 1, 1))
         IN IF x # y THEN x < y
            ELSE StringBefore(SubSeq(a, 2, Len(a)), SubSeq(b, 2, Len(b)))

\* orderBy('participantNumber', 'desc'), limit(1): the first document
lastKidNumber(kidNumbers) ==
    CHOOSE n \in {kidNumbers[i] : i \in DOMAIN kidNumbers} :
        \A i \in DOMAIN kidNumbers : ~StringBefore(n, kidNumbers[i])

\* what getNextParticipantNumber returns when its query succeeds
nextParticipantNumber(kidNumbers) ==
    IF kidNumbers = <<>> THEN "001"
    ELSE padStart3(toString(parseIntOrZero(lastKidNumber(kidNumbers)) + 1))

\* the numbers the form asks for
RequestedNumbers == {"001", "002", "999"}

\* Date.now().toString().slice(-3).padStart(3, '0'): some three digits
TimestampNumbers == {"001", "512"}

\* the collection before the calls: empty, or as earlier calls left it
KidNumbersInputs == {<<>>, <<"001">>, <<"001", "002">>, <<"999">>}

InitKids ==
    /\ user \in UserInputs
    /\ userData = NoUserData
    /\ userRole = RoleOf(userData)
    /\ canCreate = canCreateContent
    /\ canEdit = canEditContent
    /\ canDelete = canDeleteContent
    /\ canView = canViewContent
    /\ inKid = MissingKid
    /\ inField = "participantNumber"
    /\ inCtx = CtxOmitted
    /\ op = "none"
    /\ result = NoResult
    /\ inData = NoData
    /\ inType = "kid"
    /\ once = NoData
    /\ twice = NoData
    /\ NoPageMounted
    /\ retry = NoRetry
    /\ auth = NoAuth
    /\ \E kidNumbers \in KidNumbersInputs :
        kidSvc = [kids |-> kidNumbers, calls |-> <<>>]

\* addKid(kidData) with valid data: the query for kids with the requested
\* participantNumber is sent
addKid(participantNumber) ==
    /\ Len(kidSvc.calls) < MaxAddKidCalls
    /\ kidSvc' = [kidSvc EXCEPT !.calls =
                    Append(@, [pc |-> "existingKidQuery", participantNumber |-> participantNumber])]
    /\ UNCHANGED <<permVars, dashVars, retry, auth>>

\* await getDocs(existingKidQuery) resolves: taken or not at that moment
ExistingKidSnapshot(c) ==
    /\ kidSvc.calls[c].pc = "existingKidQuery"
    /\ LET taken == \E i \in DOMAIN kidSvc.kids :
                        kidSvc.kids[i] = kidSvc.calls[c].participantNumber
       IN kidSvc' = [kidSvc EXCEPT !.calls[c].pc =
                        IF taken THEN "getNextParticipantNumber" ELSE "addDoc"]
    /\ UNCHANGED <<permVars, dashVars, retry, auth>>

\* await getNextParticipantNumber() with its query answered
NextNumberTaken(c) ==
    /\ kidSvc.calls[c].pc = "getNextParticipantNumber"
    /\ kidSvc' = [kidSvc EXCEPT !.calls[c] =
                    [pc |-> "addDoc",
                     participantNumber |-> nextParticipantNumber(kidSvc.kids)]]
    /\ UNCHANGED <<permVars, dashVars, retry, auth>>

\* await getNextParticipantNumber() with its query rejected: the
\* timestamp fallback
NextNumberFromTimestamp(c, digits) ==
    /\ kidSvc.calls[c].pc = "getNextParticipantNumber"
    /\ kidSvc' = [kidSvc EXCEPT !.calls[c] =
                    [pc |-> "addDoc", participantNumber |-> padStart3(digits)]]
    /\ UNCHANGED <<permVars, dashVars, retry, auth>>

\* await addDoc(...) resolves: the document is in the collection
AddDocResolved(c) ==
    /\ kidSvc.calls[c].pc = "addDoc"
    /\ kidSvc' = [kidSvc EXCEPT !.kids = Append(@, kidSvc.calls[c].participantNumber),
                                !.calls[c].pc = "returned"]
    /\ UNCHANGED <<permVars, dashVars, retry, auth>>

\* getDocs(existingKidQuery) or addDoc rejects: catch, rethrow
AddKidFailed(c) ==
    /\ kidSvc.calls[c].pc \in {"existingKidQuery", "addDoc"}
    /\ kidSvc' = [kidSvc EXCEPT !.calls[c].pc = "threw"]
    /\ UNCHANGED <<permVars, dashVars, retry, auth>>

NextKids ==
    \/ \E participantNumber \in RequestedNumbers : addKid(participantNumber)
    \/ \E c \in DOMAIN kidSvc.calls : ExistingKidSnapshot(c)
    \/ \E c \in DOMAIN kidSvc.calls : NextNumberTaken(c)
    \/ \E c \in DOMAIN kidSvc.calls, digits \in TimestampNumbers :
            NextNumberFromTimestamp(c, digits)
    \/ \E c \in DOMAIN kidSvc.calls : AddDocResolved(c)
    \/ \E c \in DOMAIN kidSvc.calls : AddKidFailed(c)

SpecKids == InitKids /\ [][NextKids]_vars

\* C29: participant numbers stay unique: after any sequence or
\* interleaving of addKid calls no two kid documents have the same
\* participantNumber.
C29_ParticipantNumbersUnique ==
    \A i, j \in DOMAIN kidSvc.kids :
        i # j => kidSvc.kids[i] # kidSvc.kids[j]

====
